---------------------------- MODULE Spec2Model ----------------------------
(***************************************************************************)
(* Model of the cloud-secure dashboard front end:                          *)
(*   src/frontend/static/js/api-client.js  (APIClient, mockApiResponse)    *)
(*   src/unnamed/part_000                  (dashboard script)              *)
(*                                                                         *)
(* JavaScript objects are records that carry a field proto; a property     *)
(* that is missing from the object is a field missing from the record.     *)
(* JavaScript arrays are sequences.  Strings whose characters matter       *)
(* (endpoints, priorities) are sequences of one-character strings.         *)
(***************************************************************************)
EXTENDS Integers, Sequences, FiniteSets, TLC

VARIABLES
    req,            \* per caller: the state of its APIClient.request call
    pc,             \* per refreshDashboard invocation: its position
    initPc,         \* position of initializeDashboard
    timerSet,       \* setInterval(refreshDashboard, ...) has been called
    dashboardData,  \* part_000:12, the latest-payload snapshot
    fetched,        \* history: the payloads getDashboardData has returned
    lastUpdated,    \* #lastUpdated: the refresh whose start stamped it
    dom,            \* the rendered sections
    chartSlot,      \* ec2BreakdownChart, s3BreakdownChart, riskDistributionChart
    liveCharts,     \* Chart instances created and not destroyed
    chartCount,     \* number of Chart instances created so far
    outcome,        \* per refresh: the error its catch block saw, the sections it wrote
    input,          \* argument of a pure function under test
    output          \* its result

apiVars  == <<req>>
dashVars == <<pc, initPc, timerSet, dashboardData, fetched, lastUpdated, dom,
              chartSlot, liveCharts, chartCount, outcome>>
pureVars == <<input, output>>
vars     == <<req, pc, initPc, timerSet, dashboardData, fetched, lastUpdated,
              dom, chartSlot, liveCharts, chartCount, outcome, input, output>>

(***************************************************************************)
(* Bounds                                                                  *)
(***************************************************************************)
MaxCallers == 2     \* concurrent callers of the API client
MaxRefresh == 3     \* refreshDashboard invocations (the first, then timer ticks)
ScoreMargin == 20   \* scores range over -ScoreMargin .. 100 + ScoreMargin
MaxLen == 3         \* assessments in the category a breakdown is computed for
MaxRiskLen == 2     \* assessments per category in a risk distribution
MaxIssues == 5      \* issues of one assessment

Callers   == 1..MaxCallers
Refreshes == 1..MaxRefresh

(***************************************************************************)
(* JavaScript values                                                       *)
(***************************************************************************)
Has(o, f) == f \in DOMAIN o

EmptyObject == [proto |-> "Object"]
Undefined   == [proto |-> "undefined"]
Null        == [proto |-> "null"]
Array(items) == [proto |-> "Array", items |-> items]
Error(message) == [proto |-> "Error", message |-> message]

\* String.prototype.startsWith on a sequence of characters
startsWith(s, p) == Len(s) >= Len(p) /\ SubSeq(s, 1, Len(p)) = p

\* String.prototype.includes on a sequence of characters
includes(s, p) == \E i \in 1..(Len(s) - Len(p) + 1) : SubSeq(s, i, i + Len(p) - 1) = p

(***************************************************************************)
(* Endpoints, api-client.js:53-97 and mockApiResponse:164-167              *)
(***************************************************************************)
ApiPrefix == <<"/", "a", "p", "i">>
EpDashboard == ApiPrefix \o <<"/", "d", "a", "s", "h", "b", "o", "a", "r", "d">>
EpAssessment == ApiPrefix \o <<"/", "a", "s", "s", "e", "s", "s", "m", "e", "n", "t">>
EpAssessments == EpAssessment \o <<"s">>
EpRecommendation ==
    ApiPrefix \o <<"/", "r", "e", "c", "o", "m", "m", "e", "n", "d", "a", "t", "i", "o", "n">>
EpRecommendations == EpRecommendation \o <<"s">>
EpSecurityScoreSummary ==
    ApiPrefix \o <<"/", "s", "e", "c", "u", "r", "i", "t", "y", "-", "s", "c", "o", "r", "e",
                   "-", "s", "u", "m", "m", "a", "r", "y">>
\* endpoints a direct caller of request may pass that are not under /api
EpHealth == <<"/", "h", "e", "a", "l", "t", "h">>
EpEmpty  == << >>

(***************************************************************************)
(* mockApiResponse, api-client.js:111-171                                  *)
(***************************************************************************)
sample ==
    [proto |-> "Object",
     summary |->
        [proto |-> "Object",
         overall |-> [proto |-> "Object", average_score |-> 85],
         ec2 |-> [proto |-> "Object", average_score |-> 90, count |-> 2],
         s3 |-> [proto |-> "Object", average_score |-> 80, count |-> 1]],
     ec2 |->
        [proto |-> "Object",
         assessments |->
            << [proto |-> "Object", instance_name |-> "web-server-01",
                security_score |-> 92, risk_level |-> "Low",
                ebs_encryption_enabled |-> TRUE, has_public_ip |-> FALSE,
                state |-> "running", issues |-> << >>],
               [proto |-> "Object", instance_name |-> "db-server-01",
                security_score |-> 78, risk_level |-> "Medium",
                ebs_encryption_enabled |-> FALSE, has_public_ip |-> TRUE,
                state |-> "stopped", issues |-> <<"EBS not encrypted">>] >>],
     s3 |->
        [proto |-> "Object",
         assessments |->
            << [proto |-> "Object", bucket_name |-> "my-app-data",
                security_score |-> 80, risk_level |-> "Medium",
                encryption_enabled |-> TRUE, public_access_block_disabled |-> FALSE,
                issues |-> << >>] >>],
     recommendations |->
        << [proto |-> "Object", title |-> "Enable EBS encryption",
            description |-> "EBS volumes should be encrypted to protect data at rest.",
            priority |-> <<"H", "I", "G", "H">>, issue |-> "EBS not encrypted",
            resource_type |-> "EC2"] >>]

mockApiResponse(endpoint, method) ==
    IF includes(endpoint, EpDashboard) THEN sample
    ELSE IF includes(endpoint, EpAssessments)
         THEN [proto |-> "Object", ec2 |-> sample.ec2, s3 |-> sample.s3]
    ELSE IF includes(endpoint, EpRecommendations) THEN Array(sample.recommendations)
    ELSE IF includes(endpoint, EpSecurityScoreSummary) THEN sample.summary
    ELSE EmptyObject


(***************************************************************************)
(* Payloads a backend may answer with.  The fields read by the dashboard   *)
(* are optional in every position.                                         *)
(***************************************************************************)
PayloadFull ==
    [proto |-> "Object",
     summary |->
        [proto |-> "Object",
         overall |-> [proto |-> "Object", average_score |-> 55],
         ec2 |-> [proto |-> "Object", average_score |-> 35, count |-> 1],
         s3 |-> [proto |-> "Object", average_score |-> 75, count |-> 1]],
     ec2 |->
        [proto |-> "Object",
         assessments |->
            << [proto |-> "Object", instance_name |-> "bastion",
                security_score |-> 35, risk_level |-> "Critical",
                ebs_encryption_enabled |-> FALSE, has_public_ip |-> TRUE,
                state |-> "running",
                issues |-> <<"open ssh", "no imdsv2", "EBS not encrypted",
                             "public ip", "old ami">>] >>],
     s3 |->
        [proto |-> "Object",
         assessments |->
            << [proto |-> "Object", bucket_name |-> "logs",
                security_score |-> 75, risk_level |-> "Medium",
                encryption_enabled |-> FALSE, public_access_block_disabled |-> TRUE,
                issues |-> <<"no encryption">>] >>],
     recommendations |->
        << [proto |-> "Object", title |-> "Close port 22",
            description |-> "Restrict SSH to the VPN range.",
            priority |-> <<"h", "i", "g", "h">>, issue |-> "open ssh"] >>]

\* no summary at all
PayloadNoSummary ==
    [proto |-> "Object",
     ec2 |-> PayloadFull.ec2,
     s3 |-> PayloadFull.s3,
     recommendations |-> PayloadFull.recommendations]

\* summary without overall/ec2/s3, no ec2 section, s3 without assessments,
\* no recommendations
PayloadSparse ==
    [proto |-> "Object",
     summary |-> [proto |-> "Object"],
     s3 |-> [proto |-> "Object"]]

\* records whose fields are all missing
PayloadBareRecords ==
    [proto |-> "Object",
     summary |-> [proto |-> "Object", overall |-> [proto |-> "Object"]],
     ec2 |-> [proto |-> "Object", assessments |-> << [proto |-> "Object"] >>],
     s3 |-> [proto |-> "Object", assessments |-> << >>],
     recommendations |-> << [proto |-> "Object"] >>]

ServerPayloads == {PayloadFull, PayloadNoSummary, PayloadSparse, PayloadBareRecords}

(***************************************************************************)
(* APIClient.request, api-client.js:18-47.  The function suspends at the   *)
(* two awaits (fetch, response.json); each part between them is one step.  *)
(***************************************************************************)
NoRequest ==
    [phase |-> "none", endpoint |-> EpEmpty, method |-> "GET", hasBody |-> FALSE,
     result |-> Undefined, log |-> << >>]

\* lines 19-31: build the options and call fetch
request(endpoint, method, data) ==
    [phase |-> "fetch", endpoint |-> endpoint, method |-> method,
     hasBody |-> (data # Null), result |-> Undefined, log |-> << >>]

\* the catch block without the mock fallback
request_catchRethrows(r, error) ==
    [r EXCEPT !.phase = "rejected", !.result = error, !.log = @ \o <<"error">>]

\* lines 38-46: the catch block
request_catch(r, error) ==
    IF r.endpoint # EpEmpty /\ startsWith(r.endpoint, ApiPrefix)
    THEN [r EXCEPT !.phase = "resolved",
                   !.result = mockApiResponse(r.endpoint, r.method),
                   !.log = @ \o <<"error", "warn">>]
    ELSE [r EXCEPT !.phase = "rejected", !.result = error, !.log = @ \o <<"error">>]

\* fetch's response: ok is true for the statuses 200..299
Response(status) == [ok |-> (status >= 200 /\ status <= 299), status |-> status]
Statuses == {200, 404, 500}

\* lines 31-37: fetch resolved with a response
request_afterFetch(r, response) ==
    IF ~response.ok THEN request_catch(r, Error("API Error"))
    ELSE [r EXCEPT !.phase = "json"]

\* line 37: response.json() resolved
request_afterJson(r, body) == [r EXCEPT !.phase = "resolved", !.result = body]

Settled(r) == r.phase \in {"resolved", "rejected"}

\* api-client.js:53-97 and direct uses of request
getDashboardData == request(EpDashboard, "GET", Null)
getAssessments == request(EpAssessments, "GET", Null)
getRecommendations == request(EpRecommendations, "GET", Null)
getSecurityScoreSummary == request(EpSecurityScoreSummary, "GET", Null)
saveAssessment(assessment) == request(EpAssessment, "POST", assessment)
saveRecommendation(recommendation) == request(EpRecommendation, "POST", recommendation)

ApiCalls ==
    {getDashboardData, getAssessments, getRecommendations, getSecurityScoreSummary,
     saveAssessment(PayloadFull.ec2.assessments[1]),
     saveRecommendation(PayloadFull.recommendations[1]),
     request(EpHealth, "GET", Null), request(EpEmpty, "GET", Null)}

(***************************************************************************)
(* Transport steps, shared by every caller of request                      *)
(***************************************************************************)
FetchRejects(i) ==
    /\ req[i].phase = "fetch"
    /\ req' = [req EXCEPT ![i] = request_catch(@, Error("Failed to fetch"))]

FetchResponds(i, status) ==
    /\ req[i].phase = "fetch"
    /\ req' = [req EXCEPT ![i] = request_afterFetch(@, Response(status))]

JsonResolves(i, body) ==
    /\ req[i].phase = "json"
    /\ req' = [req EXCEPT ![i] = request_afterJson(@, body)]

JsonRejects(i) ==
    /\ req[i].phase = "json"
    /\ req' = [req EXCEPT ![i] = request_catch(@, Error("Unexpected token"))]

(***************************************************************************)
(* Dashboard script, part_000: helpers                                     *)
(***************************************************************************)
\* obj?.field || dflt, for a field that holds a number (0 is falsy)
NumberOr(obj, field, dflt) ==
    IF Has(obj, field) /\ obj[field] # 0 THEN obj[field] ELSE dflt

\* obj.field || dflt, for a field that holds a string ('' is falsy)
StringOr(obj, field, dflt) ==
    IF Has(obj, field) /\ obj[field] # "" THEN obj[field] ELSE dflt

\* obj.field || dflt, for a field that holds a string kept as characters
CharsOr(obj, field, dflt) ==
    IF Has(obj, field) /\ obj[field] # << >> THEN obj[field] ELSE dflt

\* truthiness of a boolean flag that may be missing
Truthy(obj, field) == Has(obj, field) /\ obj[field]

\* dashboardData.<section>?.assessments || []
SectionAssessments(data, section) ==
    IF Has(data, section) /\ Has(data[section], "assessments")
    THEN data[section].assessments ELSE << >>

\* summary.<section>?.<field> || 0
SummaryNumber(summary, section, field) ==
    IF Has(summary, section) THEN NumberOr(summary[section], field, 0) ELSE 0

\* Math.round; the scores of the model are integers
MathRound(x) == x

\* getRiskLevel with the first boundary exclusive
getRiskLevelExclusive(score) ==
    IF score > 80 THEN "Low"
    ELSE IF score >= 60 THEN "Medium"
    ELSE IF score >= 40 THEN "High"
    ELSE "Critical"

(***************************************************************************)
(* getRiskLevel, part_000:110-115                                          *)
(***************************************************************************)
getRiskLevel(score) ==
    IF score >= 80 THEN "Low"
    ELSE IF score >= 60 THEN "Medium"
    ELSE IF score >= 40 THEN "High"
    ELSE "Critical"

\* getScoreColor with a cut point of its own
getScoreColorOwnCut(score) ==
    IF score >= 80 THEN "#2D8B47"
    ELSE IF score >= 65 THEN "#FFC107"
    ELSE IF score >= 40 THEN "#FF9800"
    ELSE "#D32F2F"

(***************************************************************************)
(* getScoreColor, part_000:439-444                                         *)
(***************************************************************************)
getScoreColor(score) ==
    IF score >= 80 THEN "#2D8B47"
    ELSE IF score >= 60 THEN "#FFC107"
    ELSE IF score >= 40 THEN "#FF9800"
    ELSE "#D32F2F"

(***************************************************************************)
(* getRiskColor, part_000:449-457                                          *)
(***************************************************************************)
getRiskColor(riskLevel) ==
    CASE riskLevel = "Low" -> "#2D8B47"
      [] riskLevel = "Medium" -> "#FFC107"
      [] riskLevel = "High" -> "#FF9800"
      [] riskLevel = "Critical" -> "#D32F2F"
      [] OTHER -> "#B0B8C1"

(***************************************************************************)
(* getScoreGradient, part_000:462-467                                      *)
(***************************************************************************)
getScoreGradient(score) ==
    IF score >= 80 THEN "linear-gradient(90deg, #2D8B47, #4CAF50)"
    ELSE IF score >= 60 THEN "linear-gradient(90deg, #FFC107, #FF9800)"
    ELSE IF score >= 40 THEN "linear-gradient(90deg, #FF9800, #FF6B6B)"
    ELSE "linear-gradient(90deg, #D32F2F, #F44336)"

(***************************************************************************)
(* countCriticalIssues, part_000:120-134                                   *)
(***************************************************************************)
RECURSIVE countCritical_forEach(_, _)
countCritical_forEach(assessments, count) ==
    IF assessments = << >> THEN count
    ELSE LET assessment == Head(assessments) IN
         countCritical_forEach(Tail(assessments),
            IF Has(assessment, "risk_level") /\ assessment.risk_level = "Critical"
            THEN count + 1 ELSE count)

\* countCriticalIssues that leaves the S3 assessments out
countCriticalIssuesEc2Only(data) ==
    countCritical_forEach(SectionAssessments(data, "ec2"), 0)

countCriticalIssues(data) ==
    countCritical_forEach(
        SectionAssessments(data, "ec2") \o SectionAssessments(data, "s3"), 0)

(***************************************************************************)
(* updateEC2BreakdownChart, part_000:148-164: the breakdown                *)
(***************************************************************************)
RECURSIVE ec2Breakdown_forEach(_, _)
ec2Breakdown_forEach(assessments, breakdown) ==
    IF assessments = << >> THEN breakdown
    ELSE LET assessment == Head(assessments)
             b1 == IF Truthy(assessment, "ebs_encryption_enabled")
                   THEN [breakdown EXCEPT !.encrypted = @ + 1]
                   ELSE [breakdown EXCEPT !.notEncrypted = @ + 1]
             b2 == IF Truthy(assessment, "has_public_ip")
                   THEN [b1 EXCEPT !.publicAccess = @ + 1]
                   ELSE [b1 EXCEPT !.restricted = @ + 1]
         IN  ec2Breakdown_forEach(Tail(assessments), b2)

\* the breakdown as four mutually exclusive buckets
RECURSIVE ec2BreakdownExclusive_forEach(_, _)
ec2BreakdownExclusive_forEach(assessments, breakdown) ==
    IF assessments = << >> THEN breakdown
    ELSE LET assessment == Head(assessments) IN
         ec2BreakdownExclusive_forEach(Tail(assessments),
            IF Truthy(assessment, "ebs_encryption_enabled")
            THEN [breakdown EXCEPT !.encrypted = @ + 1]
            ELSE IF Truthy(assessment, "has_public_ip")
            THEN [breakdown EXCEPT !.publicAccess = @ + 1]
            ELSE [breakdown EXCEPT !.notEncrypted = @ + 1, !.restricted = @ + 1])

ec2BreakdownExclusive(data) ==
    ec2BreakdownExclusive_forEach(SectionAssessments(data, "ec2"),
        [encrypted |-> 0, notEncrypted |-> 0, publicAccess |-> 0, restricted |-> 0])

ec2Breakdown(data) ==
    ec2Breakdown_forEach(SectionAssessments(data, "ec2"),
        [encrypted |-> 0, notEncrypted |-> 0, publicAccess |-> 0, restricted |-> 0])

(***************************************************************************)
(* updateS3BreakdownChart, part_000:202-218: the breakdown                 *)
(***************************************************************************)
RECURSIVE s3Breakdown_forEach(_, _)
s3Breakdown_forEach(assessments, breakdown) ==
    IF assessments = << >> THEN breakdown
    ELSE LET assessment == Head(assessments)
             b1 == IF Truthy(assessment, "encryption_enabled")
                   THEN [breakdown EXCEPT !.encrypted = @ + 1]
                   ELSE [breakdown EXCEPT !.notEncrypted = @ + 1]
             b2 == IF ~Truthy(assessment, "public_access_block_disabled")
                   THEN [b1 EXCEPT !.secured = @ + 1]
                   ELSE [b1 EXCEPT !.publicAccessAllowed = @ + 1]
         IN  s3Breakdown_forEach(Tail(assessments), b2)

s3Breakdown(data) ==
    s3Breakdown_forEach(SectionAssessments(data, "s3"),
        [encrypted |-> 0, notEncrypted |-> 0, publicAccessAllowed |-> 0, secured |-> 0])

(***************************************************************************)
(* updateRiskDistributionChart, part_000:256-274: the counts.              *)
(* riskCounts is an object literal, so `risk in riskCounts` is also true   *)
(* for the property names it inherits from Object.prototype; riskCounts    *)
(* [risk]++ on such a name stores NaN under that name as an own property.  *)
(***************************************************************************)
ObjectPrototypeKeys ==
    {"constructor", "hasOwnProperty", "isPrototypeOf", "propertyIsEnumerable",
     "toLocaleString", "toString", "valueOf", "__proto__"}

In(key, obj) == key \in (DOMAIN obj \ {"proto"}) \cup ObjectPrototypeKeys

Increment(obj, key) ==
    [k \in DOMAIN obj \cup {key} |->
        IF k # key THEN obj[k]
        ELSE IF key \in {"Low", "Medium", "High", "Critical"} THEN obj[k] + 1
        ELSE "NaN"]

RECURSIVE riskCounts_forEach(_, _)
riskCounts_forEach(assessments, riskCounts) ==
    IF assessments = << >> THEN riskCounts
    ELSE LET assessment == Head(assessments)
             risk == StringOr(assessment, "risk_level", "Unknown")
         IN  riskCounts_forEach(Tail(assessments),
                IF In(risk, riskCounts) THEN Increment(riskCounts, risk)
                ELSE riskCounts)

\* the distribution with a missing risk_level counted as Low
riskDistributionMissingIsLow(data) ==
    LET assessments == SectionAssessments(data, "ec2") \o SectionAssessments(data, "s3")
        riskCounts ==
            riskCounts_forEach(
                [k \in DOMAIN assessments |->
                    IF Has(assessments[k], "risk_level") THEN assessments[k]
                    ELSE [proto |-> "Object", risk_level |-> "Low"]],
                [proto |-> "Object", Low |-> 0, Medium |-> 0, High |-> 0, Critical |-> 0])
    IN  <<riskCounts.Low, riskCounts.Medium, riskCounts.High, riskCounts.Critical>>

riskDistribution(data) ==
    LET riskCounts ==
            riskCounts_forEach(
                SectionAssessments(data, "ec2") \o SectionAssessments(data, "s3"),
                [proto |-> "Object", Low |-> 0, Medium |-> 0, High |-> 0, Critical |-> 0])
    IN  \* line 288: the dataset handed to the chart
        <<riskCounts.Low, riskCounts.Medium, riskCounts.High, riskCounts.Critical>>

(***************************************************************************)
(* String.prototype.toLowerCase, on characters                             *)
(***************************************************************************)
UpperLetters == <<"A", "B", "C", "D", "E", "F", "G", "H", "I", "J", "K", "L", "M",
                  "N", "O", "P", "Q", "R", "S", "T", "U", "V", "W", "X", "Y", "Z">>
LowerLetters == <<"a", "b", "c", "d", "e", "f", "g", "h", "i", "j", "k", "l", "m",
                  "n", "o", "p", "q", "r", "s", "t", "u", "v", "w", "x", "y", "z">>

toLowerCaseChar(c) ==
    IF \E k \in DOMAIN UpperLetters : UpperLetters[k] = c
    THEN LowerLetters[CHOOSE k \in DOMAIN UpperLetters : UpperLetters[k] = c]
    ELSE c

toLowerCase(str) == [k \in DOMAIN str |-> toLowerCaseChar(str[k])]

(***************************************************************************)
(* createRecommendationCard, part_000:347-367.  The card is kept as the    *)
(* values interpolated into the template, in the order of the template.    *)
(***************************************************************************)
createRecommendationCard(recommendation) ==
    LET priority == CharsOr(recommendation, "priority", <<"M", "E", "D", "I", "U", "M">>)
        card ==
            [cardClass |-> toLowerCase(priority),
             badgeClass |-> toLowerCase(priority),
             badge |-> priority,
             title |-> StringOr(recommendation, "title", "Security Recommendation"),
             description |->
                StringOr(recommendation, "description", "Review security configuration"),
             issue |-> StringOr(recommendation, "issue", "General security concern")]
    IN  IF Has(recommendation, "resource_type") /\ recommendation.resource_type # ""
        THEN [k \in DOMAIN card \cup {"resourceType"} |->
                IF k = "resourceType" THEN recommendation.resource_type ELSE card[k]]
        ELSE card

(***************************************************************************)
(* createAssessmentCard, part_000:399-434                                  *)
(***************************************************************************)
\* slice that keeps one element too many
sliceInclusive(arr, end) == SubSeq(arr, 1, IF Len(arr) < end + 1 THEN Len(arr) ELSE end + 1)

\* Array.prototype.slice(0, end)
slice(arr, end) == SubSeq(arr, 1, IF Len(arr) < end THEN Len(arr) ELSE end)

createAssessmentCard(assessment, type) ==
    LET score == NumberOr(assessment, "security_score", 0)
        riskLevel == StringOr(assessment, "risk_level", "Unknown")
        name == IF Has(assessment, "instance_name") /\ assessment.instance_name # ""
                THEN assessment.instance_name
                ELSE StringOr(assessment, "bucket_name", "Unknown")
        state == StringOr(assessment, "state", "unknown")
        issues == IF Has(assessment, "issues") THEN assessment.issues ELSE << >>
        card ==
            [name |-> name,
             resource |-> IF type = "EC2" THEN "EC2 Instance" ELSE "S3 Bucket",
             stateBadge |-> IF type = "EC2" THEN <<state>> ELSE << >>,
             scoreColor |-> getScoreColor(score),
             scoreText |-> MathRound(score),
             fillWidth |-> score,
             fillBackground |-> getScoreGradient(score),
             riskColor |-> getRiskColor(riskLevel),
             riskLevel |-> riskLevel,
             noIssues |-> ~(Len(issues) > 0),
             items |-> IF Len(issues) > 0 THEN slice(issues, 3) ELSE << >>,
             more |-> IF Len(issues) > 0 /\ Len(issues) > 3
                      THEN <<Len(issues) - 3>> ELSE << >>]
    IN  card

\* updateRecommendations that renders the snapshot as it was before the
\* refresh assigned its response
updateRecommendationsStale(data) ==
    LET recommendations ==
            IF Has(dashboardData, "recommendations") THEN dashboardData.recommendations
            ELSE << >>
    IN  IF Len(recommendations) = 0
        THEN [placeholder |-> "No critical recommendations at this time"]
        ELSE [cards |-> [k \in DOMAIN recommendations |->
                            createRecommendationCard(recommendations[k])]]

(***************************************************************************)
(* updateRecommendations, part_000:332-342                                 *)
(***************************************************************************)
updateRecommendations(data) ==
    LET recommendations ==
            IF Has(data, "recommendations") THEN data.recommendations ELSE << >>
    IN  IF Len(recommendations) = 0
        THEN [placeholder |-> "No critical recommendations at this time"]
        ELSE [cards |-> [k \in DOMAIN recommendations |->
                            createRecommendationCard(recommendations[k])]]

(***************************************************************************)
(* updateAssessmentList, part_000:383-394                                  *)
(***************************************************************************)
updateAssessmentList(assessments, type) ==
    IF Len(assessments) = 0
    THEN [placeholder |-> <<"No", type, "assessments found">>]
    ELSE [cards |-> [k \in DOMAIN assessments |->
                        createAssessmentCard(assessments[k], type)]]

(***************************************************************************)
(* updateAssessments, part_000:372-378                                     *)
(***************************************************************************)
updateAssessments(data) ==
    [ec2AssessmentList |-> updateAssessmentList(SectionAssessments(data, "ec2"), "EC2"),
     s3AssessmentList |-> updateAssessmentList(SectionAssessments(data, "s3"), "S3")]

(***************************************************************************)
(* updateKPICards, part_000:69-91, with setScoreCard, part_000:96-105.     *)
(* Line 73 reads a property of summary: when the payload has no summary    *)
(* that read throws a TypeError before any element is written.             *)
(***************************************************************************)
updateKPICards_throws(data) == ~Has(data, "summary")

\* className of #overallRiskLevel, line 103: riskLevel is one of the four
\* results of getRiskLevel
riskClassName(riskLevel) ==
    CASE riskLevel = "Low" -> "risk-level low"
      [] riskLevel = "Medium" -> "risk-level medium"
      [] riskLevel = "High" -> "risk-level high"
      [] riskLevel = "Critical" -> "risk-level critical"

setScoreCard(cardId, score, riskLevel) ==
    [overallScore |-> MathRound(score),
     overallScoreFill |-> score,
     overallRiskLevel |-> riskLevel,
     overallRiskClass |-> riskClassName(riskLevel)]

updateKPICards(data) ==
    LET summary == data.summary
        overallScore == SummaryNumber(summary, "overall", "average_score")
        ec2Score == SummaryNumber(summary, "ec2", "average_score")
        s3Score == SummaryNumber(summary, "s3", "average_score")
    IN  [overall |-> setScoreCard("overall", MathRound(overallScore),
                                  getRiskLevel(overallScore)),
         ec2Score |-> MathRound(ec2Score),
         ec2ScoreFill |-> ec2Score,
         ec2Count |-> SummaryNumber(summary, "ec2", "count"),
         s3Score |-> MathRound(s3Score),
         s3ScoreFill |-> s3Score,
         s3Count |-> SummaryNumber(summary, "s3", "count"),
         criticalCount |-> countCriticalIssues(data)]

(***************************************************************************)
(* Charts.  A Chart instance is live from new Chart(...) to destroy().     *)
(* charts = [slot, live, count]: the three module-level handles of         *)
(* part_000:7-9 (0 is null), the live instances, the instances created.    *)
(***************************************************************************)
NoCharts == [slot |-> [ec2 |-> 0, s3 |-> 0, risk |-> 0], live |-> {}, count |-> 0]

Chart(id, canvas, data) == [id |-> id, canvas |-> canvas, data |-> data]

destroy(live, id) == {c \in live : c.id # id}

\* part_000:148-197
updateEC2BreakdownChart(charts, data) ==
    LET breakdown == ec2Breakdown(data)
        live == IF charts.slot.ec2 # 0 THEN destroy(charts.live, charts.slot.ec2)
                ELSE charts.live
        id == charts.count + 1
    IN  [slot |-> [charts.slot EXCEPT !.ec2 = id],
         live |-> live \cup
            {Chart(id, "ec2BreakdownChart",
                   <<breakdown.encrypted, breakdown.notEncrypted,
                     breakdown.publicAccess, breakdown.restricted>>)},
         count |-> id]

\* updateS3BreakdownChart that does not destroy the chart it replaces
updateS3BreakdownChartNoDestroy(charts, data) ==
    LET breakdown == s3Breakdown(data)
        id == charts.count + 1
    IN  [slot |-> [charts.slot EXCEPT !.s3 = id],
         live |-> charts.live \cup
            {Chart(id, "s3BreakdownChart",
                   <<breakdown.encrypted, breakdown.notEncrypted,
                     breakdown.publicAccessAllowed, breakdown.secured>>)},
         count |-> id]

\* part_000:202-251
updateS3BreakdownChart(charts, data) ==
    LET breakdown == s3Breakdown(data)
        live == IF charts.slot.s3 # 0 THEN destroy(charts.live, charts.slot.s3)
                ELSE charts.live
        id == charts.count + 1
    IN  [slot |-> [charts.slot EXCEPT !.s3 = id],
         live |-> live \cup
            {Chart(id, "s3BreakdownChart",
                   <<breakdown.encrypted, breakdown.notEncrypted,
                     breakdown.publicAccessAllowed, breakdown.secured>>)},
         count |-> id]

\* part_000:256-327
updateRiskDistributionChart(charts, data) ==
    LET live == IF charts.slot.risk # 0 THEN destroy(charts.live, charts.slot.risk)
                ELSE charts.live
        id == charts.count + 1
    IN  [slot |-> [charts.slot EXCEPT !.risk = id],
         live |-> live \cup {Chart(id, "riskDistributionChart", riskDistribution(data))},
         count |-> id]

\* part_000:139-143
updateCharts(charts, data) ==
    updateRiskDistributionChart(
        updateS3BreakdownChart(updateEC2BreakdownChart(charts, data), data), data)

(***************************************************************************)
(* The page                                                                *)
(***************************************************************************)
NotRendered == [loading |-> TRUE]
NoError == Undefined
Sections == {"kpi", "charts", "recommendations", "assessments"}

InitialDom ==
    [kpi |-> NotRendered, recommendations |-> NotRendered,
     ec2AssessmentList |-> NotRendered, s3AssessmentList |-> NotRendered]

NoOutcome == [error |-> NoError, updated |-> {}]
NoInput == [none |-> TRUE]
NoOutput == [none |-> TRUE]

DashInit ==
    /\ pc = [i \in Refreshes |-> "idle"]
    /\ initPc = "loaded"
    /\ timerSet = FALSE
    /\ dashboardData = Null
    /\ fetched = {}
    /\ lastUpdated = 0
    /\ dom = InitialDom
    /\ chartSlot = NoCharts.slot
    /\ liveCharts = NoCharts.live
    /\ chartCount = NoCharts.count
    /\ outcome = [i \in Refreshes |-> NoOutcome]

Init ==
    /\ req = [i \in Refreshes |-> NoRequest]
    /\ DashInit
    /\ input = NoInput
    /\ output = NoOutput

(***************************************************************************)
(* refreshDashboard, part_000:34-54                                        *)
(***************************************************************************)
\* lines 35-40: stamp the time, call getDashboardData and suspend
refreshDashboard(i) ==
    /\ pc[i] = "idle"
    /\ lastUpdated' = i
    /\ req' = [req EXCEPT ![i] = getDashboardData]
    /\ pc' = [pc EXCEPT ![i] = "awaiting"]

\* a refresh that merges the response into the previous snapshot
AssignedMerged(previous, response) ==
    IF previous = Null THEN response
    ELSE [k \in DOMAIN previous \cup DOMAIN response |->
            IF k \in DOMAIN response THEN response[k] ELSE previous[k]]

\* the payload assigned at line 41
Assigned(previous, response) == response

\* lines 40-53: the call has settled; the rest of the function runs to its
\* end without suspending
refreshDashboard_resume(i) ==
    /\ pc[i] = "awaiting"
    /\ Settled(req[i])
    /\ pc' = [pc EXCEPT ![i] = "done"]
    /\ IF req[i].phase = "rejected"
       THEN /\ outcome' = [outcome EXCEPT ![i].error = req[i].result]
            /\ UNCHANGED <<dashboardData, fetched, dom, chartSlot, liveCharts, chartCount>>
       ELSE LET response == req[i].result
                data == Assigned(dashboardData, response)
                charts == updateCharts(
                            [slot |-> chartSlot, live |-> liveCharts, count |-> chartCount],
                            data)
                lists == updateAssessments(data)
            IN  /\ dashboardData' = data
                /\ fetched' = fetched \cup {response}
                /\ IF updateKPICards_throws(data)
                   THEN /\ outcome' = [outcome EXCEPT ![i].error =
                                Error("Cannot read properties of undefined")]
                        /\ UNCHANGED <<dom, chartSlot, liveCharts, chartCount>>
                   ELSE /\ dom' = [kpi |-> updateKPICards(data),
                                   recommendations |-> updateRecommendations(data),
                                   ec2AssessmentList |-> lists.ec2AssessmentList,
                                   s3AssessmentList |-> lists.s3AssessmentList]
                        /\ chartSlot' = charts.slot
                        /\ liveCharts' = charts.live
                        /\ chartCount' = charts.count
                        /\ outcome' = [outcome EXCEPT ![i].updated = Sections]

(***************************************************************************)
(* initializeDashboard, part_000:18-29, and the interval timer             *)
(***************************************************************************)
Started == {i \in Refreshes : pc[i] # "idle"}

\* DOMContentLoaded (line 505): lines 19-21
initializeDashboard ==
    /\ initPc = "loaded"
    /\ initPc' = "awaiting"
    /\ refreshDashboard(1)
    /\ UNCHANGED <<timerSet, dashboardData, fetched, dom, chartSlot, liveCharts,
                   chartCount, outcome, pureVars>>

\* line 24, after the first refresh has returned
initializeDashboard_resume ==
    /\ initPc = "awaiting"
    /\ pc[1] = "done"
    /\ initPc' = "done"
    /\ timerSet' = TRUE
    /\ UNCHANGED <<req, pc, dashboardData, fetched, lastUpdated, dom, chartSlot,
                   liveCharts, chartCount, outcome, pureVars>>

\* the interval fires: another invocation of refreshDashboard starts
TimerTick ==
    /\ timerSet
    /\ Cardinality(Started) < MaxRefresh
    /\ refreshDashboard(Cardinality(Started) + 1)
    /\ UNCHANGED <<initPc, timerSet, dashboardData, fetched, dom, chartSlot, liveCharts,
                   chartCount, outcome, pureVars>>

RefreshResume(i) ==
    /\ refreshDashboard_resume(i)
    /\ UNCHANGED <<req, initPc, timerSet, lastUpdated, pureVars>>

Transport(i) ==
    /\ \/ FetchRejects(i)
       \/ \E status \in Statuses : FetchResponds(i, status)
       \/ \E body \in ServerPayloads : JsonResolves(i, body)
       \/ JsonRejects(i)
    /\ UNCHANGED <<dashVars, pureVars>>

Next ==
    \/ initializeDashboard
    \/ initializeDashboard_resume
    \/ TimerTick
    \/ \E i \in Refreshes : Transport(i)
    \/ \E i \in Refreshes : RefreshResume(i)

Spec == Init /\ [][Next]_vars

(***************************************************************************)
(* The API client on its own: callers invoke any method of APIClient, or   *)
(* request directly, and the transport settles each call.                  *)
(***************************************************************************)
ApiInit ==
    /\ req = [i \in Callers |-> NoRequest]
    /\ DashInit
    /\ input = NoInput
    /\ output = NoOutput

ApiCall(i, call) ==
    /\ req[i].phase = "none"
    /\ req' = [req EXCEPT ![i] = call]
    /\ UNCHANGED <<dashVars, pureVars>>

ApiTransport(i) ==
    /\ \/ FetchRejects(i)
       \/ \E status \in Statuses : FetchResponds(i, status)
       \/ \E body \in ServerPayloads : JsonResolves(i, body)
       \/ JsonRejects(i)
    /\ UNCHANGED <<dashVars, pureVars>>

ApiNext ==
    \/ \E i \in Callers, call \in ApiCalls : ApiCall(i, call)
    \/ \E i \in Callers : ApiTransport(i)

ApiSpec == ApiInit /\ [][ApiNext]_vars

TransportFailed(r) == Settled(r) /\ r.log # << >>

(***************************************************************************)
(* C1.  A request on an endpoint that starts with /api never rejects       *)
(* because of a transport failure (fetch throws, a non-success status, an  *)
(* unreadable body): once the transport call has failed the request is     *)
(* resolved, with the fallback payload of its endpoint, the same for every *)
(* failure on that endpoint; for the four read endpoints the payload is    *)
(* the sample, its ec2/s3 sections, its recommendations and its summary.   *)
(***************************************************************************)
C1_FallbackOnFailure ==
    /\ \A i \in DOMAIN req :
        startsWith(req[i].endpoint, ApiPrefix) =>
            /\ req[i].phase # "rejected"
            /\ TransportFailed(req[i]) =>
                /\ req[i].phase = "resolved"
                /\ req[i].endpoint = EpDashboard => req[i].result = sample
                /\ req[i].endpoint = EpAssessments =>
                    req[i].result = [proto |-> "Object", ec2 |-> sample.ec2, s3 |-> sample.s3]
                /\ req[i].endpoint = EpRecommendations =>
                    req[i].result = Array(sample.recommendations)
                /\ req[i].endpoint = EpSecurityScoreSummary =>
                    req[i].result = sample.summary
    /\ \A i, j \in DOMAIN req :
        (/\ TransportFailed(req[i]) /\ TransportFailed(req[j])
         /\ req[i].endpoint = req[j].endpoint
         /\ startsWith(req[i].endpoint, ApiPrefix))
        => req[i].result = req[j].result

\* two calls of getDashboardData have failed, and both hold the sample
C1_Witness ==
    \E i, j \in DOMAIN req :
        /\ i # j
        /\ req[i].endpoint = EpDashboard /\ req[j].endpoint = EpDashboard
        /\ TransportFailed(req[i]) /\ TransportFailed(req[j])
        /\ req[i].result = sample /\ req[j].result = sample

(***************************************************************************)
(* C2.  The snapshot dashboardData is null or exactly the payload that one *)
(* completed refresh got from its getDashboardData call, whatever the      *)
(* order in which overlapping refreshes complete.                          *)
(***************************************************************************)
C2_SnapshotIsOnePayload ==
    \/ dashboardData = Null
    \/ /\ dashboardData \in fetched
       /\ \E i \in Refreshes : pc[i] = "done" /\ req[i].result = dashboardData

\* a later refresh has completed and set the snapshot while an earlier one
\* is still waiting for its fetch
C2_Witness ==
    \E i, j \in Refreshes :
        /\ i < j
        /\ pc[i] = "awaiting" /\ pc[j] = "done"
        /\ dashboardData = req[j].result
        /\ \E k \in Refreshes : k < i /\ pc[k] = "done" /\ req[k].result # dashboardData

RecordFieldsMissing(records, fields) ==
    \E k \in DOMAIN records : \E f \in fields : ~Has(records[k], f)

ShapeDefect(data) ==
    \/ ~Has(data, "summary")
    \/ Has(data, "summary") /\ \E f \in {"overall", "ec2", "s3"} : ~Has(data.summary, f)
    \/ \E f \in {"ec2", "s3", "recommendations"} : ~Has(data, f)
    \/ RecordFieldsMissing(SectionAssessments(data, "ec2"),
                           {"risk_level", "security_score", "issues"})
    \/ RecordFieldsMissing(SectionAssessments(data, "s3"),
                           {"risk_level", "security_score", "issues"})
    \/ Has(data, "recommendations")
        /\ RecordFieldsMissing(data.recommendations, {"priority", "title"})

(***************************************************************************)
(* C3.  A payload with a missing summary, summary.overall, summary.ec2,    *)
(* summary.s3, ec2, s3, recommendations or per-record field never raises   *)
(* an error: the refresh that fetched it ends without an exception and     *)
(* has updated all four sections.                                          *)
(***************************************************************************)
C3_NoErrorOnShapeDefect ==
    \A i \in Refreshes :
        (pc[i] = "done" /\ req[i].phase = "resolved" /\ ShapeDefect(req[i].result)) =>
            /\ outcome[i].error = NoError
            /\ outcome[i].updated = Sections

(***************************************************************************)
(* Inputs of the pure functions                                            *)
(***************************************************************************)
SeqsUpTo(S, n) == UNION {[1..k -> S] : k \in 0..n}

\* an object with the fields D, valued by g
Object(D, g) == [k \in D \cup {"proto"} |-> IF k = "proto" THEN "Object" ELSE g[k]]

\* a section of the payload: missing, without assessments, or with a list
Absent == [present |-> FALSE]
Present(section) == [present |-> TRUE, value |-> section]
SectionOptions(lists) ==
    {Absent, Present(EmptyObject)}
        \cup {Present([proto |-> "Object", assessments |-> l]) : l \in lists}

AssessmentPayload(e, s) ==
    Object((IF e.present THEN {"ec2"} ELSE {}) \cup (IF s.present THEN {"s3"} ELSE {}),
           [k \in {"ec2", "s3"} |-> IF k = "ec2" THEN e.value ELSE s.value])

\* records that carry the two flags of a category, each true, false or missing
FlagRecords(f1, f2) ==
    {Object(D, g) : D \in SUBSET {f1, f2}, g \in [{f1, f2} -> BOOLEAN]}

Scores == (0 - ScoreMargin)..(100 + ScoreMargin)

(***************************************************************************)
(* The score functions on their own                                        *)
(***************************************************************************)
PureInit ==
    /\ req = [i \in Callers |-> NoRequest]
    /\ pc = [i \in Refreshes |-> "idle"]
    /\ initPc = "loaded"
    /\ timerSet = FALSE
    /\ fetched = {}
    /\ lastUpdated = 0
    /\ dom = InitialDom
    /\ chartSlot = NoCharts.slot
    /\ liveCharts = NoCharts.live
    /\ chartCount = NoCharts.count
    /\ outcome = [i \in Refreshes |-> NoOutcome]
    /\ output = NoOutput

ScoreInit ==
    /\ PureInit
    /\ dashboardData = Null
    /\ input \in {[score |-> s] : s \in Scores}

Classify ==
    /\ output = NoOutput
    /\ output' = [riskLevel |-> getRiskLevel(input.score),
                  color |-> getScoreColor(input.score),
                  gradient |-> getScoreGradient(input.score)]
    /\ UNCHANGED <<apiVars, dashVars, input>>

ScoreNext == Classify

ScoreSpec == ScoreInit /\ [][ScoreNext]_vars

(***************************************************************************)
(* C4.  getRiskLevel is total: Low from 80, Medium from 60 to 79, High     *)
(* from 40 to 59, Critical for every other score, negative ones included.  *)
(***************************************************************************)
C4_RiskLevelTotal ==
    output # NoOutput =>
        LET s == input.score IN
        /\ output.riskLevel \in {"Low", "Medium", "High", "Critical"}
        /\ (s >= 80) <=> (output.riskLevel = "Low")
        /\ (60 <= s /\ s < 80) <=> (output.riskLevel = "Medium")
        /\ (40 <= s /\ s < 60) <=> (output.riskLevel = "High")
        /\ (s < 40) <=> (output.riskLevel = "Critical")

\* a negative score has been classified Critical
C4_Witness == output # NoOutput /\ input.score < 0 /\ output.riskLevel = "Critical"

Tiers ==
    {<<"Low", "#2D8B47", "linear-gradient(90deg, #2D8B47, #4CAF50)">>,
     <<"Medium", "#FFC107", "linear-gradient(90deg, #FFC107, #FF9800)">>,
     <<"High", "#FF9800", "linear-gradient(90deg, #FF9800, #FF6B6B)">>,
     <<"Critical", "#D32F2F", "linear-gradient(90deg, #D32F2F, #F44336)">>}

(***************************************************************************)
(* C5.  For every score in 0..100 the risk level, the colour and the       *)
(* gradient are of the same tier, and each of the three changes value at   *)
(* exactly 40, 60 and 80, the boundary belonging to the higher tier.       *)
(***************************************************************************)
C5_TiersAgree ==
    (output # NoOutput /\ input.score \in 0..100) =>
        LET s == input.score IN
        /\ <<output.riskLevel, output.color, output.gradient>> \in Tiers
        /\ s >= 1 =>
            /\ (output.riskLevel # getRiskLevel(s - 1)) <=> (s \in {40, 60, 80})
            /\ (output.color # getScoreColor(s - 1)) <=> (s \in {40, 60, 80})
            /\ (output.gradient # getScoreGradient(s - 1)) <=> (s \in {40, 60, 80})

\* the boundary score 60 has been classified into the Medium tier
C5_Witness ==
    /\ output # NoOutput /\ input.score = 60
    /\ output.riskLevel = "Medium" /\ output.color = "#FFC107"

(***************************************************************************)
(* The breakdown charts on their own: a payload is given, and each of the  *)
(* two update functions runs on it.                                        *)
(***************************************************************************)
Ec2FlagRecords == FlagRecords("ebs_encryption_enabled", "has_public_ip")
S3FlagRecords == FlagRecords("encryption_enabled", "public_access_block_disabled")

\* every list up to MaxLen in one category, beside a fixed other category
BreakdownInputs ==
    {AssessmentPayload(e, s) :
        e \in SectionOptions(SeqsUpTo(Ec2FlagRecords, MaxLen)),
        s \in {Absent, Present(sample.s3)}}
    \cup
    {AssessmentPayload(e, s) :
        e \in {Absent, Present(sample.ec2)},
        s \in SectionOptions(SeqsUpTo(S3FlagRecords, MaxLen))}

BreakdownInit ==
    /\ PureInit
    /\ input = NoInput
    /\ dashboardData \in BreakdownInputs

Charts == [slot |-> chartSlot, live |-> liveCharts, count |-> chartCount]

SetCharts(charts) ==
    /\ chartSlot' = charts.slot
    /\ liveCharts' = charts.live
    /\ chartCount' = charts.count

RunEC2BreakdownChart ==
    /\ chartSlot.ec2 = 0
    /\ SetCharts(updateEC2BreakdownChart(Charts, dashboardData))
    /\ UNCHANGED <<apiVars, pc, initPc, timerSet, dashboardData, fetched, lastUpdated,
                   dom, outcome, pureVars>>

RunS3BreakdownChart ==
    /\ chartSlot.s3 = 0
    /\ SetCharts(updateS3BreakdownChart(Charts, dashboardData))
    /\ UNCHANGED <<apiVars, pc, initPc, timerSet, dashboardData, fetched, lastUpdated,
                   dom, outcome, pureVars>>

BreakdownNext == RunEC2BreakdownChart \/ RunS3BreakdownChart

BreakdownSpec == BreakdownInit /\ [][BreakdownNext]_vars

CountFlag(assessments, flag) ==
    Cardinality({k \in DOMAIN assessments :
                    Has(assessments[k], flag) /\ assessments[k][flag] = TRUE})

(***************************************************************************)
(* C6.  A breakdown is two independent binary splits of the category's     *)
(* list: encrypted + notEncrypted = n and publicAccess + restricted = n    *)
(* for EC2, encrypted + notEncrypted = n and publicAccessAllowed +         *)
(* secured = n for S3; an entry is on the first side of a split exactly    *)
(* when its flag is present and true; an empty list gives all zeros.       *)
(***************************************************************************)
C6_TwoBinarySplits ==
    \A c \in liveCharts :
        /\ c.canvas = "ec2BreakdownChart" =>
            LET a == SectionAssessments(dashboardData, "ec2") IN
            /\ c.data[1] = CountFlag(a, "ebs_encryption_enabled")
            /\ c.data[1] + c.data[2] = Len(a)
            /\ c.data[3] = CountFlag(a, "has_public_ip")
            /\ c.data[3] + c.data[4] = Len(a)
        /\ c.canvas = "s3BreakdownChart" =>
            LET a == SectionAssessments(dashboardData, "s3") IN
            /\ c.data[1] = CountFlag(a, "encryption_enabled")
            /\ c.data[1] + c.data[2] = Len(a)
            /\ c.data[3] = CountFlag(a, "public_access_block_disabled")
            /\ c.data[3] + c.data[4] = Len(a)

\* an EC2 list of three whose entries fall on both sides of both splits, one
\* of them with a missing flag, has been charted
C6_Witness ==
    LET a == SectionAssessments(dashboardData, "ec2") IN
    /\ Len(a) = 3
    /\ \E k \in DOMAIN a : ~Has(a[k], "ebs_encryption_enabled")
    /\ \E c \in liveCharts :
        /\ c.canvas = "ec2BreakdownChart"
        /\ c.data[1] > 0 /\ c.data[2] > 0 /\ c.data[3] > 0 /\ c.data[4] > 0

(***************************************************************************)
(* The risk counts on their own: a payload is given, countCriticalIssues   *)
(* and updateRiskDistributionChart run on it, and the assessments are      *)
(* reordered (within a category and across the two).                       *)
(***************************************************************************)
RiskLevels == {"Low", "Medium", "High", "Critical", "Unknown", "toString"}

\* a record with one of the risk levels, or none
RiskRecords ==
    {EmptyObject} \cup {[proto |-> "Object", risk_level |-> r] : r \in RiskLevels}

\* the S3 lists draw on fewer levels; reordering moves the others in
S3RiskRecords ==
    {EmptyObject} \cup
    {[proto |-> "Object", risk_level |-> r] : r \in {"Medium", "Critical", "Unknown"}}

RiskInputs ==
    {AssessmentPayload(e, s) :
        e \in SectionOptions(SeqsUpTo(RiskRecords, MaxRiskLen)),
        s \in SectionOptions(SeqsUpTo(S3RiskRecords, MaxRiskLen))}

RiskInit ==
    /\ PureInit
    /\ input = [reordered |-> FALSE]
    /\ dashboardData \in RiskInputs

RunRiskCounts ==
    /\ chartSlot.risk = 0
    /\ output' = [criticalCount |-> countCriticalIssues(dashboardData)]
    /\ SetCharts(updateRiskDistributionChart(Charts, dashboardData))
    /\ UNCHANGED <<apiVars, pc, initPc, timerSet, dashboardData, fetched, lastUpdated,
                   dom, outcome, input>>

AllAssessments(data) == SectionAssessments(data, "ec2") \o SectionAssessments(data, "s3")

\* after the counts were taken: swap the entries k and k+1 of the
\* concatenation, the lengths of the two categories kept
Reorder(k) ==
    LET e == SectionAssessments(dashboardData, "ec2")
        all == AllAssessments(dashboardData)
        swapped == [all EXCEPT ![k] = all[k + 1], ![k + 1] = all[k]]
        e2 == SubSeq(swapped, 1, Len(e))
        s2 == SubSeq(swapped, Len(e) + 1, Len(all))
        d1 == IF e2 # e THEN [dashboardData EXCEPT !.ec2.assessments = e2]
              ELSE dashboardData
    IN  /\ output # NoOutput
        /\ k \in 1..(Len(all) - 1)
        /\ swapped # all
        /\ input' = [reordered |-> TRUE]
        /\ dashboardData' =
            IF s2 # SectionAssessments(dashboardData, "s3")
            THEN [d1 EXCEPT !.s3.assessments = s2] ELSE d1
        /\ UNCHANGED <<apiVars, pc, initPc, timerSet, fetched, lastUpdated, dom,
                       chartSlot, liveCharts, chartCount, outcome, output>>

RiskNext == RunRiskCounts \/ \E k \in 1..(2 * MaxRiskLen) : Reorder(k)

RiskSpec == RiskInit /\ [][RiskNext]_vars

CountLevel(assessments, level) ==
    Cardinality({k \in DOMAIN assessments :
                    Has(assessments[k], "risk_level") /\ assessments[k].risk_level = level})

(***************************************************************************)
(* C7.  The risk distribution counts, for each of Low, Medium, High and    *)
(* Critical, exactly the entries of the concatenated EC2 and S3 lists with *)
(* that risk_level; a missing, Unknown or other level changes none of the  *)
(* four, so they sum to the number of entries with a recognised level.     *)
(***************************************************************************)
C7_RiskDistribution ==
    \A c \in liveCharts :
        c.canvas = "riskDistributionChart" =>
            LET a == AllAssessments(dashboardData) IN
            /\ c.data[1] = CountLevel(a, "Low")
            /\ c.data[2] = CountLevel(a, "Medium")
            /\ c.data[3] = CountLevel(a, "High")
            /\ c.data[4] = CountLevel(a, "Critical")
            /\ c.data[1] + c.data[2] + c.data[3] + c.data[4] =
                Cardinality({k \in DOMAIN a :
                    /\ Has(a[k], "risk_level")
                    /\ a[k].risk_level \in {"Low", "Medium", "High", "Critical"}})

\* a payload with a recognised level in each category and with a missing, an
\* Unknown and an inherited-name level has been charted
C7_Witness ==
    LET a == AllAssessments(dashboardData) IN
    /\ \E k \in DOMAIN a : ~Has(a[k], "risk_level")
    /\ CountLevel(a, "toString") + CountLevel(a, "Unknown") > 0
    /\ CountLevel(SectionAssessments(dashboardData, "s3"), "Medium") > 0
    /\ \E c \in liveCharts :
        c.canvas = "riskDistributionChart" /\ c.data[2] > 0 /\ c.data[1] + c.data[4] > 0

(***************************************************************************)
(* C8.  countCriticalIssues is the number of entries with risk_level       *)
(* Critical in the EC2 and S3 lists together, a missing section counting   *)
(* for none, and it is the same after every reordering of the entries.     *)
(***************************************************************************)
C8_CriticalCount ==
    output # NoOutput =>
        output.criticalCount = CountLevel(AllAssessments(dashboardData), "Critical")

\* a count of at least one, and the entries have been reordered since it was
\* taken, so that every Critical entry is now in the S3 list
C8_Witness ==
    /\ output # NoOutput
    /\ input.reordered
    /\ output.criticalCount >= 1
    /\ CountLevel(SectionAssessments(dashboardData, "ec2"), "Critical") = 0
    /\ \E c \in liveCharts : c.canvas = "riskDistributionChart" /\ c.data[4] >= 1
    /\ Len(SectionAssessments(dashboardData, "ec2")) >= 1

(***************************************************************************)
(* The cards on their own: a record is given and its card is created.      *)
(***************************************************************************)
Issues == SeqsUpTo({"open ssh", "no imdsv2"}, MaxIssues)

AssessmentFields ==
    [issues |-> << >>, security_score |-> 72, risk_level |-> "High",
     instance_name |-> "bastion", bucket_name |-> "logs", state |-> "running"]

\* assessments with any of the fields missing, and any list of issues
CardAssessments ==
    {Object(D, [AssessmentFields EXCEPT !.issues = l]) :
        D \in SUBSET DOMAIN AssessmentFields, l \in Issues}

\* String.prototype.toUpperCase, on characters
toUpperCaseChar(c) ==
    IF \E k \in DOMAIN LowerLetters : LowerLetters[k] = c
    THEN UpperLetters[CHOOSE k \in DOMAIN LowerLetters : LowerLetters[k] = c]
    ELSE c

toUpperCase(str) == [k \in DOMAIN str |-> toUpperCaseChar(str[k])]

\* every spelling of a word in upper and lower case letters
RECURSIVE AnyCase(_)
AnyCase(word) ==
    IF word = << >> THEN {<< >>}
    ELSE {<<c>> \o rest :
            c \in {Head(word), toLowerCaseChar(Head(word))}, rest \in AnyCase(Tail(word))}

PriorityNames == {<<"H", "I", "G", "H">>, <<"M", "E", "D", "I", "U", "M">>, <<"L", "O", "W">>}
Priorities == UNION {AnyCase(word) : word \in PriorityNames}

RecommendationFields ==
    [priority |-> << >>, title |-> "Close port 22",
     description |-> "Restrict SSH to the VPN range.",
     issue |-> "open ssh", resource_type |-> "EC2"]

\* recommendations with any of the fields missing, and any priority
CardRecommendations ==
    {Object(D, [RecommendationFields EXCEPT !.priority = p]) :
        D \in SUBSET DOMAIN RecommendationFields, p \in Priorities \cup {<< >>}}

CardInit ==
    /\ PureInit
    /\ dashboardData = Null
    /\ input \in
        {[fn |-> "createAssessmentCard", assessment |-> a, type |-> t] :
            a \in CardAssessments, t \in {"EC2", "S3"}}
        \cup {[fn |-> "createRecommendationCard", recommendation |-> r] :
                r \in CardRecommendations}

RunCreateAssessmentCard ==
    /\ output = NoOutput
    /\ input.fn = "createAssessmentCard"
    /\ output' = createAssessmentCard(input.assessment, input.type)
    /\ UNCHANGED <<apiVars, dashVars, input>>

RunCreateRecommendationCard ==
    /\ output = NoOutput
    /\ input.fn = "createRecommendationCard"
    /\ output' = createRecommendationCard(input.recommendation)
    /\ UNCHANGED <<apiVars, dashVars, input>>

CardNext == RunCreateAssessmentCard \/ RunCreateRecommendationCard

CardSpec == CardInit /\ [][CardNext]_vars

(***************************************************************************)
(* C9.  createAssessmentCard shows at most the first 3 issues in their     *)
(* order: all n and no marker when n <= 3, the issues 1..3 and one marker  *)
(* reporting n - 3 more when n > 3; a missing list is treated as empty.    *)
(***************************************************************************)
C9_IssuesTruncated ==
    (output # NoOutput /\ input.fn = "createAssessmentCard") =>
        LET given == IF Has(input.assessment, "issues") THEN input.assessment.issues
                     ELSE << >>
            n == Len(given)
        IN  /\ n <= 3 => output.items = given /\ output.more = << >>
            /\ n > 3 =>
                /\ Len(output.items) = 3
                /\ \A k \in 1..3 : output.items[k] = given[k]
                /\ output.more = <<n - 3>>
            /\ ~Has(input.assessment, "issues") => output.noIssues

\* five issues, not all the same, have been cut to three and a marker for two
C9_Witness ==
    /\ output # NoOutput /\ input.fn = "createAssessmentCard"
    /\ Has(input.assessment, "issues")
    /\ Len(input.assessment.issues) = 5
    /\ input.assessment.issues[1] # input.assessment.issues[3]
    /\ Len(output.items) = 3 /\ output.more = <<2>>

(***************************************************************************)
(* C10.  createRecommendationCard normalizes the priority: for every       *)
(* spelling of HIGH, MEDIUM or LOW in any case the badge shows the upper   *)
(* case form and the class is the lower case form; a missing priority is   *)
(* shown as MEDIUM with the class medium.                                  *)
(***************************************************************************)
C10_PriorityNormalized ==
    (output # NoOutput /\ input.fn = "createRecommendationCard") =>
        LET rec == input.recommendation IN
        /\ (Has(rec, "priority") /\ rec.priority \in Priorities) =>
            /\ output.badge = toUpperCase(rec.priority)
            /\ output.badge \in PriorityNames
            /\ output.cardClass = toLowerCase(rec.priority)
            /\ output.badgeClass = toLowerCase(rec.priority)
        /\ ~Has(rec, "priority") =>
            /\ output.badge = <<"M", "E", "D", "I", "U", "M">>
            /\ output.cardClass = <<"m", "e", "d", "i", "u", "m">>

\* the data of the live chart on a canvas is d
ChartShows(canvas, d) == \E c \in liveCharts : c.canvas = canvas /\ c.data = d

\* every section of the page shows what the section updates compute from
\* the payload p
RenderedFrom(p) ==
    /\ ~updateKPICards_throws(p)
    /\ dom.kpi = updateKPICards(p)
    /\ dom.recommendations = updateRecommendations(p)
    /\ dom.ec2AssessmentList = updateAssessments(p).ec2AssessmentList
    /\ dom.s3AssessmentList = updateAssessments(p).s3AssessmentList
    /\ LET e == ec2Breakdown(p)
           b == s3Breakdown(p)
       IN  /\ ChartShows("ec2BreakdownChart",
                <<e.encrypted, e.notEncrypted, e.publicAccess, e.restricted>>)
           /\ ChartShows("s3BreakdownChart",
                <<b.encrypted, b.notEncrypted, b.publicAccessAllowed, b.secured>>)
           /\ ChartShows("riskDistributionChart", riskDistribution(p))

(***************************************************************************)
(* C11.  Whenever a step changes the page (a card, a list or a chart), it  *)
(* is the step of one refresh that resumes after its fetch, and after it   *)
(* the snapshot is the payload that refresh fetched and the KPI cards, the *)
(* three charts, the recommendations and the two assessment lists are all  *)
(* computed from that one payload: no section is left from, or taken from, *)
(* the payload of another refresh.                                         *)
(***************************************************************************)
C11_SectionsFromOnePayload ==
    [][(dom' # dom \/ liveCharts' # liveCharts) =>
        \E i \in Refreshes :
            /\ pc[i] = "awaiting" /\ pc'[i] = "done"
            /\ req[i].phase = "resolved"
            /\ dashboardData' = req[i].result
            /\ outcome'[i].updated = Sections
            /\ RenderedFrom(req[i].result)']_vars

\* a later refresh has rendered its payload over the different payload of
\* the first one, while the refresh between them holds a third payload that
\* it has fetched and not yet rendered
C11_Witness ==
    \E i, j \in Refreshes :
        /\ 1 < i /\ i < j
        /\ pc[1] = "done" /\ outcome[1].updated = Sections
        /\ pc[j] = "done" /\ outcome[j].updated = Sections
        /\ pc[i] = "awaiting" /\ req[i].phase = "resolved"
        /\ req[j].result # req[1].result
        /\ req[i].result # req[j].result
        /\ dom.recommendations # updateRecommendations(req[1].result)
        /\ RenderedFrom(req[j].result)

ChartCanvases == {"ec2BreakdownChart", "s3BreakdownChart", "riskDistributionChart"}

\* the chart instance the slot of a canvas refers to (0: the slot is null)
SlotOf(canvas) ==
    CASE canvas = "ec2BreakdownChart" -> chartSlot.ec2
      [] canvas = "s3BreakdownChart" -> chartSlot.s3
      [] canvas = "riskDistributionChart" -> chartSlot.risk

\* the chart instances created on a canvas and not destroyed
LiveOn(canvas) == {c \in liveCharts : c.canvas = canvas}

(***************************************************************************)
(* C12.  For each of the three chart slots, at most one chart instance     *)
(* that was created and not destroyed exists on its canvas; the slot is    *)
(* null exactly when there is none, and otherwise it refers to that one    *)
(* live instance.                                                          *)
(***************************************************************************)
C12_OneLiveChartPerSlot ==
    \A canvas \in ChartCanvases :
        /\ Cardinality(LiveOn(canvas)) <= 1
        /\ SlotOf(canvas) = 0 <=> LiveOn(canvas) = {}
        /\ \A c \in LiveOn(canvas) : c.id = SlotOf(canvas)

\* two refreshes have drawn the charts: six instances were created, and the
\* three of the first refresh were destroyed
C12_Witness ==
    /\ chartCount >= 6
    /\ \A canvas \in ChartCanvases :
        /\ Cardinality(LiveOn(canvas)) = 1
        /\ SlotOf(canvas) > 3

=============================================================================
